---- MODULE Spec2Model ----
(***************************************************************************)
(* A model of pdfgrep (src/pdfgrep.py): the indexing pipeline made of the  *)
(* Coordinator (PDFGrep.index), the forked Workers                         *)
(* (PDFGrep.workload_thread), the staging directories they communicate     *)
(* through, the persistent database (PDFGrep.save), the reconciliation    *)
(* pass (PDFGrep.cleanup) and the search over the database                 *)
(* (PDFGrep.search).                                                       *)
(*                                                                         *)
(* Strings are sequences of tokens.  A token is one character ("/", ".",   *)
(* "a", ...) or a file extension ("pdf", "PDF", "txt") taken as a unit, so *)
(* that Python's slicing path[0:len(item)] is SubSeq and the prefix tests  *)
(* of the code are computed the way the code computes them.                *)
(***************************************************************************)
EXTENDS Integers, Sequences, FiniteSets, TLC

(***************************************************************************)
(* Bounds of the model.                                                    *)
(***************************************************************************)
\* the detected core count ranges over 1..MaxCores
MaxCores == 3
\* number of successive invocations of "pdfgrep -i" that are modelled
MaxPasses == 2
\* at most this many documents make a collaborator fail
MaxFailures == 1
\* the process id the operating system gives to the first forked child
FirstPid == 2

(***************************************************************************)
(* The file system the program runs on.                                    *)
(***************************************************************************)
FileA == <<"/", "a", "/", "x", ".", "pdf">>
FileS == <<"/", "a", "/", "s", "/", "y", ".", "PDF">>
FileB == <<"/", "a", "b", "/", "z", ".", "pdf">>
FileN == <<"/", "a", "/", "n", ".", "txt">>
\* a document that was indexed once and has since been deleted
FileG == <<"/", "a", "/", "g", ".", "pdf">>

\* the entries of the file system, in the order the directory scan lists them
FsListing == <<FileA, FileN, FileS, FileB>>

FsFiles == {FsListing[k] : k \in 1..Len(FsListing)}

\* the working directory of the process
Cwd == <<"/">>

\* os.stat(path): the modification time and size of the files on disk
Stat ==
  [p \in FsFiles |->
     IF p = FileA THEN [mtime |-> 10, fsize |-> 100]
     ELSE IF p = FileS THEN [mtime |-> 20, fsize |-> 200]
     ELSE IF p = FileB THEN [mtime |-> 30, fsize |-> 300]
     ELSE [mtime |-> 40, fsize |-> 400]]

\* page texts, character by character
TextHello == <<"H", "e", "l", "l", "o", " ", "W", "o", "r", "l", "d", "\n", "F", "o", "o">>
TextOne == <<"p", "a", "g", "e", " ", "o", "n", "e">>
TextTwo == <<"p", "a", "g", "e", " ", "t", "w", "o", "\n", "O", "n", "e", "\n">>
TextZ == <<"z", "z">>
TextOld == <<"o", "l", "d">>
TextGone == <<"g", "o", "n", "e">>

\* the text the OCR collaborator returns for the pages of a document
OcrPages ==
  [p \in FsFiles |->
     IF p = FileA THEN <<TextHello>>
     ELSE IF p = FileS THEN <<TextOne, TextTwo>>
     ELSE <<TextZ>>]

(***************************************************************************)
(* String helpers (Python str operations used by the code).                *)
(***************************************************************************)
\* s[0:n]
Slice(s, n) == SubSeq(s, 1, IF n < Len(s) THEN n ELSE Len(s))

\* str.lower() on one token
LowerTok(t) ==
  CASE t = "PDF" -> "pdf"
    [] t = "D" -> "d"
    [] t = "F" -> "f"
    [] t = "H" -> "h"
    [] t = "L" -> "l"
    [] t = "O" -> "o"
    [] t = "R" -> "r"
    [] t = "W" -> "w"
    [] OTHER -> t

\* str.lower()
Lower(s) == [k \in 1..Len(s) |-> LowerTok(s[k])]

RECURSIVE LastDot(_, _)
\* the position of the last "." of s at or before k, 0 when there is none
LastDot(s, k) ==
  IF k = 0 THEN 0
  ELSE IF s[k] = "." THEN k
  ELSE LastDot(s, k - 1)

\* path.split('.')[-1]
SplitDotLast(s) == SubSeq(s, LastDot(s, Len(s)) + 1, Len(s))

\* line 102: path.split('.')[-1].lower() != 'pdf'
NotPdf(path) == Lower(SplitDotLast(path)) # <<"pdf">>

\* os.path.abspath(path)
Abspath(path) ==
  IF Len(path) > 0 /\ path[1] = "/" THEN path
  ELSE IF Cwd[Len(Cwd)] = "/" THEN Cwd \o path
  ELSE Cwd \o <<"/">> \o path

RECURSIVE GlobFrom(_, _)
\* glob.glob('%s/**/*' % index_path, recursive=True): the entries below the
\* directory index_path, each spelled with index_path as given
GlobFrom(index_path, k) ==
  IF k > Len(FsListing) THEN <<>>
  ELSE
    LET dir == Abspath(index_path) \o <<"/">>
        e == FsListing[k]
        rest == GlobFrom(index_path, k + 1)
    IN IF Len(e) > Len(dir) /\ SubSeq(e, 1, Len(dir)) = dir
       THEN <<index_path \o <<"/">> \o SubSeq(e, Len(dir) + 1, Len(e))>> \o rest
       ELSE rest

Glob(index_path) == GlobFrom(index_path, 1)

\* path_in_paths: path[0:len(item)] == item for some item of path_list
path_in_paths(path, path_list) ==
  \E k \in 1..Len(path_list) : Slice(path, Len(path_list[k])) = path_list[k]

\* lines 110-115 of index(): the same prefix test, written inline
Ignored(path, paths_to_ignore) ==
  \E k \in 1..Len(paths_to_ignore) :
    Slice(path, Len(paths_to_ignore[k])) = paths_to_ignore[k]

RECURSIVE DiscoverGlob(_, _, _)
\* lines 101-118: the paths of one root that are kept
DiscoverGlob(found, k, paths_to_ignore) ==
  IF k > Len(found) THEN <<>>
  ELSE
    LET path == Abspath(found[k])
        rest == DiscoverGlob(found, k + 1, paths_to_ignore)
    IN IF NotPdf(found[k]) THEN rest
       ELSE IF path \notin FsFiles THEN rest
       ELSE IF Ignored(path, paths_to_ignore) THEN rest
       ELSE <<path>> \o rest

RECURSIVE DiscoverFrom(_, _, _)
\* lines 100-118: pdf_files, root after root, not deduplicated
DiscoverFrom(paths_to_index, k, paths_to_ignore) ==
  IF k > Len(paths_to_index) THEN <<>>
  ELSE DiscoverGlob(Glob(paths_to_index[k]), 1, paths_to_ignore)
         \o DiscoverFrom(paths_to_index, k + 1, paths_to_ignore)

Discover(paths_to_index, paths_to_ignore) ==
  DiscoverFrom(paths_to_index, 1, paths_to_ignore)

(***************************************************************************)
(* build_workload                                                          *)
(***************************************************************************)
\* lines 175 and 199: threads = int(ncpu) / 2 is a true division, so
\* thread_id >= threads compares an integer with ncpu / 2
SlotLimitReached(thread_id, ncpu) == 2 * thread_id >= ncpu

\* never skips
UnchangedNever(db, path, mtime, fsize) == FALSE

\* line 184: the fingerprint test of build_workload
Unchanged(db, path, mtime, fsize) ==
  /\ path \in DOMAIN db
  /\ db[path].mtime = mtime
  /\ db[path].fsize = fsize

\* the empty workload {}
NoWorkload == [t \in {} |-> <<>>]

RECURSIVE BuildFrom(_, _, _, _, _, _)
\* lines 180-202: the loop of build_workload from position k of pdf_files
BuildFrom(pdf_files, k, db, ncpu, thread_id, acc) ==
  IF k > Len(pdf_files) THEN acc
  ELSE
    LET path == pdf_files[k]
        mtime == Stat[path].mtime
        fsize == Stat[path].fsize
    IN IF Unchanged(db, path, mtime, fsize)
       THEN BuildFrom(pdf_files, k + 1, db, ncpu, thread_id, acc)
       ELSE
         LET item == [path |-> path, mtime |-> mtime, fsize |-> fsize]
             old == IF thread_id \in DOMAIN acc.workload
                    THEN acc.workload[thread_id] ELSE <<>>
             wl == [t \in DOMAIN acc.workload \cup {thread_id} |->
                      IF t = thread_id THEN Append(old, item)
                      ELSE acc.workload[t]]
             nxt == IF SlotLimitReached(thread_id + 1, ncpu) THEN 0
                    ELSE thread_id + 1
         IN BuildFrom(pdf_files, k + 1, db, ncpu, nxt,
                      [workload |-> wl, total_todo |-> acc.total_todo + 1])

build_workload(pdf_files, db, ncpu) ==
  BuildFrom(pdf_files, 1, db, ncpu, 0, [workload |-> NoWorkload, total_todo |-> 0])

(***************************************************************************)
(* cleanup                                                                 *)
(***************************************************************************)
\* a reconciliation that does not stop at the indexed roots
ToRemoveNoRoots(db, paths_to_index, files, paths_to_ignore) ==
  {path \in DOMAIN db :
     \/ \A k \in 1..Len(files) : files[k] # path
     \/ path_in_paths(path, paths_to_ignore)}

\* lines 324-337: the paths cleanup() collects in to_remove
ToRemove(db, paths_to_index, files, paths_to_ignore) ==
  {path \in DOMAIN db :
     IF ~path_in_paths(path, paths_to_index) THEN FALSE
     ELSE IF \A k \in 1..Len(files) : files[k] # path THEN TRUE
     ELSE path_in_paths(path, paths_to_ignore)}

\* lines 339-340: the database after the pops
Cleaned(db, paths_to_index, files, paths_to_ignore) ==
  [path \in DOMAIN db \ ToRemove(db, paths_to_index, files, paths_to_ignore) |->
     db[path]]

(***************************************************************************)
(* The inputs an invocation is started with.                               *)
(***************************************************************************)
RootA == <<"/", "a">>
RootS == <<"/", "a", "/", "s">>
RootB == <<"/", "a", "b">>
RootRel == <<"a">>

\* the index roots given on the command line
RootLists == {<<RootA>>, <<RootA, RootS>>, <<RootB, RootS>>, <<RootRel>>}

\* the --ignore prefixes given on the command line
IgnoreLists == {<<>>, <<RootS>>}

Record(p) ==
  [mtime |-> Stat[p].mtime, fsize |-> Stat[p].fsize, pages |-> OcrPages[p]]

\* a record written by an earlier run, before the file was modified
StaleRecord(p) ==
  [mtime |-> Stat[p].mtime - 1, fsize |-> Stat[p].fsize, pages |-> <<TextOld>>]

NoDatabase == [p \in {} |-> Record(FileA)]

\* what database.db may hold when the program starts
InitialDatabases ==
  { NoDatabase,
    [p \in {FileA, FileS, FileB, FileG} |->
       IF p = FileS THEN StaleRecord(FileS)
       ELSE IF p = FileG
         THEN [mtime |-> 5, fsize |-> 50, pages |-> <<TextGone>>]
       ELSE Record(p)] }

\* how the rasterizer and the OCR respond to a document: "ok", or the
\* exception raised (PDFPageCountError by convert_from_path, TesseractError
\* by image_to_string)
Outcomes == {"ok", "PDFPageCountError", "TesseractError"}

Documents == {FileA, FileS, FileB}

OutcomeMaps ==
  {o \in [Documents -> Outcomes] :
     Cardinality({p \in Documents : o[p] # "ok"}) <= MaxFailures}

(***************************************************************************)
(* State                                                                   *)
(***************************************************************************)
VARIABLES
  paths_to_index,   \* argv: the index roots
  paths_to_ignore,  \* argv: the --ignore prefixes
  cleanup,          \* argv: -c
  ncpu,             \* the output of "sysctl -n hw.ncpu"
  outcome,          \* the collaborators' response to each document
  pass,             \* which invocation of the program is running
  pc,               \* the Coordinator's position
  ret,              \* where save() returns to
  database,         \* self.database
  disk,             \* database.db and database.db.new
  pdf_files,        \* index(): pdf_files
  workload,         \* index(): workload
  total_todo,       \* index(): total_todo
  pids,             \* self.pids
  pdfs_done,        \* self.pdfs_done
  last_done,        \* index(): last_done
  threads_complete, \* index(): threads_complete
  cur,              \* index(): thread_id of the poll loop
  pending,          \* process_results(): the glob result not yet visited
  curfile,          \* process_results(): the staging file read last
  reaped,           \* the workers whose exit status was collected
  worker,           \* per slot: position, item index and sequence number i
  staging,          \* per slot: the files of tmppath/<thread_id>
  interrupted,      \* SIGINT was delivered to the Coordinator in this pass
  sigterm,          \* the arguments of the os.kill calls of handler()
  log,              \* the paths of the "cannot index" lines on stdout
  ocr_calls,        \* image_to_string calls made during this pass
  loaded,           \* history: the database as loaded at process start (line 37)
  prev,             \* history: total_todo, pdfs_done and the paths of the failed
                    \* items at the end of the pass before
  search_string,    \* argv: the words to search for
  printed,          \* search(): the result lines on stdout
  path_i,           \* search(): how many paths of the database were visited
  vanished          \* the files deleted after line 107 saw them and before line 181

inputs == <<paths_to_index, paths_to_ignore, cleanup, ncpu, outcome>>

coord == <<pc, ret, database, pdf_files, workload, total_todo, pids, pdfs_done,
           last_done, threads_complete, cur, pending, curfile, reaped>>

history == <<loaded, prev>>

searchv == <<search_string, printed, path_i>>

vars == <<inputs, pass, coord, disk, worker, staging, interrupted, sigterm, log,
          ocr_calls, history, searchv, vanished>>

DbName == "database.db"
NewName == "database.db.new"

NoFile == [exists |-> FALSE, complete |-> TRUE, content |-> NoDatabase]

Init ==
  /\ paths_to_index \in RootLists
  /\ paths_to_ignore \in IgnoreLists
  /\ cleanup \in BOOLEAN
  /\ ncpu \in 1..MaxCores
  /\ outcome \in OutcomeMaps
  /\ pass = 1
  /\ pc = "start"
  /\ ret = "remove"
  /\ database \in InitialDatabases
  /\ disk = [f \in {DbName, NewName} |->
               IF f = DbName
               THEN [exists |-> TRUE, complete |-> TRUE, content |-> database]
               ELSE NoFile]
  /\ pdf_files = <<>>
  /\ workload = NoWorkload
  /\ total_todo = 0
  /\ pids = NoWorkload
  /\ pdfs_done = 0
  /\ last_done = 0
  /\ threads_complete = TRUE
  /\ cur = 0
  /\ pending = {}
  /\ curfile = {}
  /\ reaped = {}
  /\ worker = NoWorkload
  /\ staging = NoWorkload
  /\ interrupted = FALSE
  /\ sigterm = <<>>
  /\ log = {}
  /\ ocr_calls = 0
  /\ loaded = database
  /\ prev = [total_todo |-> 0, pdfs_done |-> 0, failed |-> {}]
  /\ search_string = <<>>
  /\ printed = <<>>
  /\ path_i = 0
  /\ vanished = {}

(***************************************************************************)
(* Serialization of a staging result                                       *)
(***************************************************************************)
\* lines 237-242: json.dumps of the dict: its members in the order written,
\* each a pair of the key and the value
json_dumps(o) ==
  <<<<"path", o.path>>, <<"mtime", o.mtime>>, <<"fsize", o.fsize>>,
    <<"pages", o.pages>>>>

\* the value json.loads gives for key k of the text s
Member(s, k) == s[CHOOSE n \in 1..Len(s) : s[n][1] = k][2]

\* line 259: json.loads of a staging file
json_loads(s) ==
  [path |-> Member(s, "path"), mtime |-> Member(s, "mtime"),
   fsize |-> Member(s, "fsize"), pages |-> Member(s, "pages")]

RECURSIVE TextFrom(_, _, _)
\* lines 225-232: text.append(txt) for page after page of the document
TextFrom(doc, k, text) ==
  IF k > Len(doc) THEN text
  ELSE TextFrom(doc, k + 1, Append(text, doc[k]))

(***************************************************************************)
(* Coordinator: index()                                                    *)
(***************************************************************************)
Alive(t) == worker[t].pc \in {"run", "opened", "written"}

\* the files another process may delete while index() runs: none, or one of
\* the discovered documents
Vanishings(files) == {{}} \cup {{files[k]} : k \in 1..Len(files)}

\* lines 96-134: discovery, build_workload and the fork of one child per slot.
\* os.stat (lines 181-182) raises FileNotFoundError on a file that is gone;
\* nothing catches it, so the Coordinator ends before it forks.
StartIndex ==
  /\ pc = "start"
  /\ LET files == Discover(paths_to_index, paths_to_ignore)
         bw == build_workload(files, database, ncpu)
         slots == DOMAIN bw.workload
     IN /\ pdf_files' = files
        /\ vanished' \in Vanishings(files)
        /\ IF vanished' = {}
           THEN /\ workload' = bw.workload
                /\ total_todo' = bw.total_todo
                /\ pids' = [t \in slots |-> FirstPid + t]
                /\ worker' = [t \in slots |-> [pc |-> "run", idx |-> 1, i |-> 0]]
                /\ staging' = [t \in slots |-> {}]
                /\ pc' = IF slots = {} THEN "endfor" ELSE "waitpid"
           ELSE /\ pc' = "aborted"
                /\ UNCHANGED <<workload, total_todo, pids, worker, staging>>
  /\ pdfs_done' = 0
  /\ last_done' = 0
  /\ threads_complete' = TRUE
  /\ cur' = 0
  /\ UNCHANGED <<searchv, history, inputs, pass, ret, database, disk, pending, curfile, reaped,
                 interrupted, sigterm, log, ocr_calls>>

\* the for statement of line 139 moves to the next slot, or ends
NextSlotPc == IF cur + 1 \in DOMAIN pids THEN "waitpid" ELSE "endfor"

NextSlotCur == IF cur + 1 \in DOMAIN pids THEN cur + 1 ELSE cur

\* harvests a slot only while its worker is still running
HarvestAfterWaitAliveOnly(t) ==
  IF t \in reaped THEN FALSE ELSE Alive(t)

\* lines 141-149: process_results runs unless waitpid raised ChildProcessError
HarvestAfterWait(t) == t \notin reaped

\* a waitpid without WNOHANG: returns when the child has ended
WaitPidBlocking(t) == ~Alive(t)

\* line 143: os.waitpid(pid, 1) -- option 1 is WNOHANG, the call returns at
\* once whatever the state of the child
WaitPidReturns(t) == TRUE

\* lines 140-147: os.waitpid(pid, WNOHANG) on the slot's child
WaitPid ==
  /\ pc = "waitpid"
  /\ WaitPidReturns(cur)
  /\ threads_complete' =
       IF cur \notin reaped /\ Alive(cur) THEN FALSE ELSE threads_complete
  /\ reaped' = IF cur \notin reaped /\ ~Alive(cur) THEN reaped \cup {cur} ELSE reaped
  /\ IF HarvestAfterWait(cur)
     THEN pc' = "glob" /\ cur' = cur
     ELSE pc' = NextSlotPc /\ cur' = NextSlotCur
  /\ UNCHANGED <<vanished, searchv, history, inputs, pass, ret, database, disk, pdf_files, workload,
                 total_todo, pids, pdfs_done, last_done, pending, curfile,
                 worker, staging, interrupted, sigterm, log, ocr_calls>>

\* visits every directory entry
IsResultNameAny(f) == TRUE

\* line 258: path.split('/')[-1].isdigit() -- "<i>" passes, "<i>.tmp" does not
IsResultName(f) == ~f.tmp

FileName(f) == [n |-> f.n, tmp |-> f.tmp]

\* line 257: glob.glob of the slot's staging directory, filtered by line 258
Glob_results ==
  /\ pc = "glob"
  /\ LET names == {FileName(f) : f \in {g \in staging[cur] : IsResultName(g)}}
     IN /\ pending' = names
        /\ IF names = {}
           THEN pc' = NextSlotPc /\ cur' = NextSlotCur
           ELSE pc' = "merge" /\ cur' = cur
  /\ UNCHANGED <<vanished, searchv, history, inputs, pass, ret, database, disk, pdf_files, workload,
                 total_todo, pids, pdfs_done, last_done, threads_complete,
                 curfile, reaped, worker, staging, interrupted, sigterm, log, ocr_calls>>

\* stores the size as the modification time and the reverse
MergedRecordSwapped(obj) ==
  [mtime |-> obj.fsize, fsize |-> obj.mtime, pages |-> obj.pages]

\* lines 261-265: the record stored under obj['path']
MergedRecord(obj) ==
  [mtime |-> obj.mtime, fsize |-> obj.fsize, pages |-> obj.pages]

\* lines 259-265: read one staging file and merge it.  json.loads raises on
\* a file that is not a complete document, open() on one that is gone; the
\* exception is not caught and ends the Coordinator.
Merge ==
  /\ pc = "merge"
  /\ \E name \in pending :
       LET fs == {f \in staging[cur] : FileName(f) = name}
       IN /\ curfile' = fs
          /\ IF \E f \in fs : f.complete
             THEN /\ \E f \in fs :
                       database' = [p \in DOMAIN database \cup {json_loads(f.obj).path} |->
                                      IF p = json_loads(f.obj).path
                                      THEN MergedRecord(json_loads(f.obj))
                                      ELSE database[p]]
                  /\ pc' = "save_open"
                  /\ ret' = "remove"
             ELSE /\ pc' = "crashed"
                  /\ UNCHANGED <<database, ret>>
  /\ UNCHANGED <<vanished, searchv, history, inputs, pass, disk, pdf_files, workload, total_todo, pids,
                 pdfs_done, last_done, threads_complete, cur, pending, reaped,
                 worker, staging, interrupted, sigterm, log, ocr_calls>>

\* writes the database file in place
SaveTargetInPlace == DbName

\* line 250: save() writes database_file + '.new'
SaveTarget == NewName

\* line 250: open(..., 'w') creates or truncates the file
SaveOpen ==
  /\ pc = "save_open"
  /\ disk' = [disk EXCEPT ![SaveTarget] =
                [exists |-> TRUE, complete |-> FALSE, content |-> database]]
  /\ pc' = "save_write"
  /\ UNCHANGED <<vanished, searchv, history, inputs, pass, ret, database, pdf_files, workload, total_todo,
                 pids, pdfs_done, last_done, threads_complete, cur, pending,
                 curfile, reaped, worker, staging, interrupted, sigterm, log, ocr_calls>>

\* line 251: the serialization is written and the file closed
SaveWrite ==
  /\ pc = "save_write"
  /\ disk' = [disk EXCEPT ![SaveTarget] =
                [exists |-> TRUE, complete |-> TRUE, content |-> database]]
  /\ pc' = "save_rename"
  /\ UNCHANGED <<vanished, searchv, history, inputs, pass, ret, database, pdf_files, workload, total_todo,
                 pids, pdfs_done, last_done, threads_complete, cur, pending,
                 curfile, reaped, worker, staging, interrupted, sigterm, log, ocr_calls>>

\* line 253: os.rename(database_file + '.new', database_file)
SaveRename ==
  /\ pc = "save_rename"
  /\ disk' = [f \in {DbName, NewName} |->
                IF f = DbName THEN disk[NewName] ELSE NoFile]
  /\ disk[NewName].exists
  /\ pc' = ret
  /\ UNCHANGED <<vanished, searchv, history, inputs, pass, ret, database, pdf_files, workload, total_todo,
                 pids, pdfs_done, last_done, threads_complete, cur, pending,
                 curfile, reaped, worker, staging, interrupted, sigterm, log, ocr_calls>>

\* leaves the merged file in the staging directory
UnlinkedNot(dir, merged) == dir

\* line 270: os.remove(path) -- the directory without the merged file
Unlinked(dir, merged) ==
  {f \in dir : FileName(f) \notin {FileName(g) : g \in merged}}

\* lines 268-270: count the document and delete its staging file
Remove ==
  /\ pc = "remove"
  /\ pdfs_done' = pdfs_done + 1
  /\ staging' = [staging EXCEPT ![cur] = Unlinked(staging[cur], curfile)]
  /\ LET left == pending \ {FileName(g) : g \in curfile}
     IN /\ pending' = left
        /\ IF left = {}
           THEN pc' = NextSlotPc /\ cur' = NextSlotCur
           ELSE pc' = "merge" /\ cur' = cur
  /\ curfile' = {}
  /\ UNCHANGED <<vanished, searchv, history, inputs, pass, ret, database, disk, pdf_files, workload,
                 total_todo, pids, last_done, threads_complete, reaped, worker,
                 interrupted, sigterm, log, ocr_calls>>

\* lines 151-168: not every worker has exited: sleep, report, poll again
Tick ==
  /\ pc = "endfor"
  /\ ~threads_complete
  /\ last_done' = pdfs_done
  /\ threads_complete' = TRUE
  /\ cur' = 0
  /\ pc' = "waitpid"
  /\ UNCHANGED <<vanished, searchv, history, inputs, pass, ret, database, disk, pdf_files, workload,
                 total_todo, pids, pdfs_done, pending, curfile, reaped, worker,
                 staging, interrupted, sigterm, log, ocr_calls>>

\* removes stale records whether or not -c was given
CleanupRequestedAlways(flag) == TRUE

\* line 170: "if cleanup:"
CleanupRequested(flag) == flag

\* lines 151-152 and 170: every worker has exited: leave the loop
EndPass ==
  /\ pc = "endfor"
  /\ threads_complete
  /\ pc' = IF CleanupRequested(cleanup) THEN "cleanup" ELSE "done"
  /\ UNCHANGED <<vanished, searchv, history, inputs, pass, ret, database, disk, pdf_files, workload,
                 total_todo, pids, pdfs_done, last_done, threads_complete, cur,
                 pending, curfile, reaped, worker, staging, interrupted, sigterm, log,
                 ocr_calls>>

\* lines 323-342: cleanup() up to its call of save()
Cleanup ==
  /\ pc = "cleanup"
  /\ database' = Cleaned(database, paths_to_index, pdf_files, paths_to_ignore)
  /\ ret' = "done"
  /\ pc' = "save_open"
  /\ UNCHANGED <<vanished, searchv, history, inputs, pass, disk, pdf_files, workload, total_todo, pids,
                 pdfs_done, last_done, threads_complete, cur, pending, curfile,
                 reaped, worker, staging, interrupted, sigterm, log, ocr_calls>>

(***************************************************************************)
(* Worker: workload_thread(), one forked process per slot                  *)
(***************************************************************************)
\* lines 213-223: only PDFPageCountError is caught around convert_from_path;
\* nothing is caught around image_to_string
Caught(e) == e = "PDFPageCountError"

\* lines 234-242: the staging file "<i>.tmp" after open(), before the write
TmpFile(item, i) ==
  [n |-> i, tmp |-> TRUE, complete |-> FALSE,
   obj |-> json_dumps([path |-> item.path, mtime |-> item.mtime,
                       fsize |-> item.fsize,
                       pages |-> TextFrom(OcrPages[item.path], 1, <<>>)])]

\* takes every document for rendered and read
SucceededAlways(e) == TRUE

\* lines 213-232: convert_from_path and image_to_string returned
Succeeded(e) == e = "ok"

\* lines 212-236: rasterize and OCR the next item, then open its .tmp file
WorkerItem(t) ==
  /\ worker[t].pc = "run"
  /\ worker[t].idx <= Len(workload[t])
  /\ LET item == workload[t][worker[t].idx]
         e == outcome[item.path]
     IN IF Succeeded(e)
        THEN /\ worker' = [worker EXCEPT ![t].pc = "opened"]
             /\ staging' = [staging EXCEPT ![t] =
                              {f \in @ : FileName(f) # [n |-> worker[t].i, tmp |-> TRUE]}
                                \cup {TmpFile(item, worker[t].i)}]
             /\ ocr_calls' = ocr_calls + Len(OcrPages[item.path])
             /\ log' = log
        ELSE IF Caught(e)
        THEN /\ worker' = [worker EXCEPT ![t].idx = @ + 1]
             /\ log' = log \cup {item.path}
             /\ UNCHANGED <<staging, ocr_calls>>
        ELSE /\ worker' = [worker EXCEPT ![t].pc = "crashed"]
             /\ ocr_calls' = ocr_calls + (IF e = "TesseractError" THEN 1 ELSE 0)
             /\ UNCHANGED <<staging, log>>
  /\ UNCHANGED <<vanished, searchv, history, inputs, pass, coord, disk, interrupted, sigterm>>

\* lines 236-242: the serialized record is written and the file closed
WorkerWrite(t) ==
  /\ worker[t].pc = "opened"
  /\ worker' = [worker EXCEPT ![t].pc = "written"]
  /\ staging' = [staging EXCEPT ![t] =
                   {IF f.tmp /\ f.n = worker[t].i
                    THEN [f EXCEPT !.complete = TRUE] ELSE f : f \in @}]
  /\ UNCHANGED <<vanished, searchv, history, inputs, pass, coord, disk, interrupted, sigterm, log, ocr_calls>>

\* lines 244-246: os.rename("<i>.tmp", "<i>"), then i += 1
WorkerRename(t) ==
  /\ worker[t].pc = "written"
  /\ worker' = [worker EXCEPT ![t].pc = "run", ![t].idx = @ + 1, ![t].i = @ + 1]
  /\ staging' = [staging EXCEPT ![t] =
                   {[f EXCEPT !.tmp = FALSE] : f \in {g \in @ : g.n = worker[t].i /\ g.tmp}}
                     \cup {g \in @ : g.n # worker[t].i}]
  /\ UNCHANGED <<vanished, searchv, history, inputs, pass, coord, disk, interrupted, sigterm, log, ocr_calls>>

\* line 129: sys.exit() after the last item
WorkerExit(t) ==
  /\ worker[t].pc = "run"
  /\ worker[t].idx > Len(workload[t])
  /\ worker' = [worker EXCEPT ![t].pc = "exited"]
  /\ UNCHANGED <<vanished, searchv, history, inputs, pass, coord, disk, staging, interrupted, sigterm, log,
                 ocr_calls>>

(***************************************************************************)
(* Cancellation: handler()                                                 *)
(***************************************************************************)
\* the slots of self.pids in insertion order: 0, 1, ...
Slots(p) == [k \in 1..Cardinality(DOMAIN p) |-> k - 1]

\* lines 303-304: "for pid in self.pids" iterates over the keys of the dict
HandlerTargets(p) == Slots(p)

RECURSIVE UpToSelf(_, _)
\* os.kill(0, SIGTERM) signals the caller's whole process group: the
\* Coordinator dies of it, so no later os.kill of the loop is made
UpToSelf(targets, k) ==
  IF k > Len(targets) THEN targets
  ELSE IF targets[k] = 0 THEN SubSeq(targets, 1, k)
  ELSE UpToSelf(targets, k + 1)

Range(s) == {s[k] : k \in 1..Len(s)}

ActivePcs == {"waitpid", "glob", "merge", "save_open", "save_write",
              "save_rename", "remove", "endfor", "cleanup"}

\* SIGINT arrives at the Coordinator while index() runs (line 46)
Interrupt ==
  /\ pc \in ActivePcs
  /\ ~interrupted
  /\ interrupted' = TRUE
  /\ LET sent == UpToSelf(HandlerTargets(pids), 1)
         group == 0 \in Range(sent)
     IN /\ sigterm' = sent
        /\ worker' = [t \in DOMAIN worker |->
                        IF Alive(t) /\ (group \/ pids[t] \in Range(sent))
                        THEN [worker[t] EXCEPT !.pc = "killed"]
                        ELSE worker[t]]
        /\ pc' = IF group THEN "killed" ELSE pc
  /\ UNCHANGED <<vanished, searchv, history, inputs, pass, ret, database, disk, pdf_files, workload,
                 total_todo, pids, pdfs_done, last_done, threads_complete, cur,
                 pending, curfile, reaped, staging, log, ocr_calls>>

(***************************************************************************)
(* The next invocation of the program on the same files                    *)
(***************************************************************************)
\* lines 23-46 after sys.exit() of line 80: a new process loads database.db
\* and makes a new temporary directory
\* the paths of the work items a Worker took up and failed on: its loop has
\* moved past the item, or has ended at it, without a result
FailedPaths ==
  UNION { { workload[t][k].path :
              k \in {j \in 1..Len(workload[t]) :
                       /\ outcome[workload[t][j].path] # "ok"
                       /\ \/ worker[t].idx > j
                          \/ worker[t].idx = j /\ worker[t].pc = "crashed"} } :
          t \in DOMAIN workload }

Restart ==
  /\ pc = "done"
  /\ pass < MaxPasses
  /\ disk[DbName].complete
  /\ pass' = pass + 1
  /\ pc' = "start"
  /\ ret' = "remove"
  /\ database' = disk[DbName].content
  /\ pdf_files' = <<>>
  /\ workload' = NoWorkload
  /\ total_todo' = 0
  /\ pids' = NoWorkload
  /\ pdfs_done' = 0
  /\ last_done' = 0
  /\ threads_complete' = TRUE
  /\ cur' = 0
  /\ pending' = {}
  /\ curfile' = {}
  /\ reaped' = {}
  /\ worker' = NoWorkload
  /\ staging' = NoWorkload
  /\ interrupted' = FALSE
  /\ sigterm' = <<>>
  /\ log' = {}
  /\ ocr_calls' = 0
  /\ loaded' = disk[DbName].content
  /\ prev' = [total_todo |-> total_todo, pdfs_done |-> pdfs_done, failed |-> FailedPaths]
  /\ UNCHANGED <<searchv, inputs, disk>>
  /\ vanished' = {}

Next ==
  \/ StartIndex
  \/ WaitPid
  \/ Glob_results
  \/ Merge
  \/ SaveOpen
  \/ SaveWrite
  \/ SaveRename
  \/ Remove
  \/ Tick
  \/ EndPass
  \/ Cleanup
  \/ \E t \in DOMAIN worker : WorkerItem(t)
  \/ \E t \in DOMAIN worker : WorkerWrite(t)
  \/ \E t \in DOMAIN worker : WorkerRename(t)
  \/ \E t \in DOMAIN worker : WorkerExit(t)
  \/ Interrupt
  \/ Restart

Spec == Init /\ [][Next]_vars

\* the steps of the Coordinator from the poll loop of line 136 to the end of
\* index()
Coordinator ==
  \/ WaitPid
  \/ Glob_results
  \/ Merge
  \/ SaveOpen
  \/ SaveWrite
  \/ SaveRename
  \/ Remove
  \/ Tick
  \/ EndPass
  \/ Cleanup

\* The Coordinator is a sequential process that makes no blocking call in
\* its poll loop (WNOHANG, sleeps of 0.5 s, local file operations), so the
\* operating system keeps running it: its next step is eventually taken.
\* Nothing is assumed of the Workers, which wait on the rasterizer and the
\* OCR, nor of the arrival of signals or of later invocations.
\* one invocation of "pdfgrep -i": every step but the start of a later one
NextOnce ==
  \/ StartIndex
  \/ Coordinator
  \/ \E t \in DOMAIN worker : WorkerItem(t)
  \/ \E t \in DOMAIN worker : WorkerWrite(t)
  \/ \E t \in DOMAIN worker : WorkerRename(t)
  \/ \E t \in DOMAIN worker : WorkerExit(t)
  \/ Interrupt

SpecLive == Init /\ [][NextOnce]_vars /\ WF_vars(Coordinator)

(***************************************************************************)
(* search(): the invocation "pdfgrep <word> ..."                           *)
(***************************************************************************)
\* the words a query may be made of, and the longest query
Words ==
  { <<"h", "e", "l", "l", "o">>, <<"W", "O", "R", "L", "D">>, <<"o", "n", "e">>,
    <<"z", "z", "z">>, <<"o">> }

MaxWords == 2

RECURSIVE Queries(_)
\* the argument lists of 1..n words
Queries(n) ==
  IF n = 0 THEN {}
  ELSE {<<w>> : w \in Words}
       \cup Queries(n - 1)
       \cup {Append(q, w) : q \in Queries(n - 1), w \in Words}

\* the databases a search may find: any of the records indexing leaves behind
SearchDatabases ==
  LET full == [p \in {FileA, FileS, FileB, FileG} |->
                 IF p = FileG THEN [mtime |-> 5, fsize |-> 50, pages |-> <<TextGone>>]
                 ELSE Record(p)]
  IN {[p \in S |-> full[p]] : S \in SUBSET {FileA, FileS, FileB, FileG}}

RECURSIVE Join(_)
\* line 308: ' '.join(search_string)
Join(words) ==
  IF Len(words) = 0 THEN <<>>
  ELSE IF Len(words) = 1 THEN words[1]
  ELSE words[1] \o <<" ">> \o Join(Tail(words))

\* the code point a token starts with
Ord(t) ==
  CASE t = "." -> 46 [] t = "/" -> 47 [] t = "PDF" -> 80
    [] t = "a" -> 97 [] t = "b" -> 98 [] t = "g" -> 103 [] t = "n" -> 110
    [] t = "pdf" -> 112 [] t = "s" -> 115 [] t = "txt" -> 116
    [] t = "x" -> 120 [] t = "y" -> 121 [] t = "z" -> 122

RECURSIVE StrLess(_, _)
\* a < b on Python strings
StrLess(a, b) ==
  IF Len(b) = 0 THEN FALSE
  ELSE IF Len(a) = 0 THEN TRUE
  ELSE IF a[1] # b[1] THEN Ord(a[1]) < Ord(b[1])
  ELSE StrLess(Tail(a), Tail(b))

RECURSIVE Sorted(_)
\* line 310: sorted(self.database)
Sorted(S) ==
  IF S = {} THEN <<>>
  ELSE LET least == CHOOSE a \in S : \A b \in S \ {a} : StrLess(a, b)
       IN <<least>> \o Sorted(S \ {least})

RECURSIVE SplitFrom(_, _, _, _)
\* line 314: page.split("\n"), reading page from position k with the current
\* piece and the pieces found so far
SplitFrom(page, k, piece, pieces) ==
  IF k > Len(page) THEN Append(pieces, piece)
  ELSE IF page[k] = "\n" THEN SplitFrom(page, k + 1, <<>>, Append(pieces, piece))
  ELSE SplitFrom(page, k + 1, Append(piece, page[k]), pieces)

\* line 315: needle in hay
In(needle, hay) ==
  \E o \in 0..(Len(hay) - Len(needle)) :
    SubSeq(hay, o + 1, o + Len(needle)) = needle

\* the page number is printed from 1, the line number from 0
ResultPageFromZero(path, pagen, i, line) == <<path, pagen, i, line>>

\* line 316: the values printed for a matching line
Result(path, pagen, i, line) == <<path, pagen + 1, i, line>>

RECURSIVE LinesFrom(_, _, _, _, _)
\* lines 313-318: the loop over the lines of one page
LinesFrom(path, pagen, lines, i, q) ==
  IF i >= Len(lines) THEN <<>>
  ELSE (IF In(Lower(q), Lower(lines[i + 1]))
        THEN <<Result(path, pagen, i, lines[i + 1])>>
        ELSE <<>>)
       \o LinesFrom(path, pagen, lines, i + 1, q)

RECURSIVE PagesFrom(_, _, _, _)
\* lines 311-320: the loop over the pages of one record
PagesFrom(path, pages, pagen, q) ==
  IF pagen >= Len(pages) THEN <<>>
  ELSE LinesFrom(path, pagen, SplitFrom(pages[pagen + 1], 1, <<>>, <<>>), 0, q)
       \o PagesFrom(path, pages, pagen + 1, q)

\* a search invocation: the database is loaded, main() has collected the words
InitSearch ==
  /\ paths_to_index = <<>>
  /\ paths_to_ignore = <<>>
  /\ cleanup = FALSE
  /\ ncpu = 1
  /\ outcome = [p \in Documents |-> "ok"]
  /\ pass = 1
  /\ pc = "search"
  /\ ret = "remove"
  /\ database \in SearchDatabases
  /\ disk = [f \in {DbName, NewName} |->
               IF f = DbName
               THEN [exists |-> TRUE, complete |-> TRUE, content |-> database]
               ELSE NoFile]
  /\ pdf_files = <<>>
  /\ workload = NoWorkload
  /\ total_todo = 0
  /\ pids = NoWorkload
  /\ pdfs_done = 0
  /\ last_done = 0
  /\ threads_complete = TRUE
  /\ cur = 0
  /\ pending = {}
  /\ curfile = {}
  /\ reaped = {}
  /\ worker = NoWorkload
  /\ staging = NoWorkload
  /\ interrupted = FALSE
  /\ sigterm = <<>>
  /\ log = {}
  /\ ocr_calls = 0
  /\ loaded = database
  /\ prev = [total_todo |-> 0, pdfs_done |-> 0, failed |-> {}]
  /\ search_string \in Queries(MaxWords)
  /\ printed = <<>>
  /\ path_i = 0
  /\ vanished = {}

\* lines 310-320: one round of the loop over the sorted paths
SearchPath ==
  /\ pc = "search"
  /\ path_i < Len(Sorted(DOMAIN database))
  /\ LET path == Sorted(DOMAIN database)[path_i + 1]
     IN printed' = printed \o PagesFrom(path, database[path].pages, 0, Join(search_string))
  /\ path_i' = path_i + 1
  /\ UNCHANGED <<vanished, search_string, inputs, pass, coord, disk, worker, staging, interrupted,
                 sigterm, log, ocr_calls, history>>

\* line 88: sys.exit() after search() returns
SearchExit ==
  /\ pc = "search"
  /\ path_i = Len(Sorted(DOMAIN database))
  /\ pc' = "done"
  /\ UNCHANGED <<vanished, searchv, inputs, pass, ret, database, pdf_files, workload, total_todo,
                 pids, pdfs_done, last_done, threads_complete, cur, pending, curfile,
                 reaped, disk, worker, staging, interrupted, sigterm, log, ocr_calls,
                 history>>

NextSearch == SearchPath \/ SearchExit

SpecSearch == InitSearch /\ [][NextSearch]_vars

(***************************************************************************)
(* Properties                                                              *)
(***************************************************************************)
\* the Coordinator has partitioned the work of this pass
Partitioned == pc # "start"

\* the work items of all slots
Items ==
  {tk \in (DOMAIN workload) \X (1..Len(pdf_files)) : tk[2] <= Len(workload[tk[1]])}

\* how many work items carry path p
Assigned(p) == Cardinality({tk \in Items : workload[tk[1]][tk[2]].path = p})

\* the candidates whose fingerprint differs from, or is absent from, the
\* database the pass started with
Outstanding ==
  {p \in Range(pdf_files) :
     \/ p \notin DOMAIN loaded
     \/ loaded[p].mtime # Stat[p].mtime
     \/ loaded[p].fsize # Stat[p].fsize}

\* C1 -- partition completeness: the work lists hold exactly the outstanding
\* candidates, each path once, and total_todo counts the distinct
\* outstanding documents.
C1_PartitionComplete ==
  Partitioned =>
    /\ \A p \in Range(pdf_files) :
         Assigned(p) = IF p \in Outstanding THEN 1 ELSE 0
    /\ \A tk \in Items : workload[tk[1]][tk[2]].path \in Outstanding
    /\ total_todo = Cardinality(Outstanding)

\* the set of process ids of the workers forked in this pass
WorkerPids == {pids[t] : t \in DOMAIN pids}

\* C2 -- cancellation: once the interrupt was handled, SIGTERM has gone to
\* the process id of every spawned worker and to nothing else, no worker is
\* running, and the Coordinator has left its poll loop.
C2_Cancellation ==
  (interrupted /\ DOMAIN pids # {}) =>
    /\ Range(sigterm) = WorkerPids
    /\ \A t \in DOMAIN worker : ~Alive(t)
    /\ pc \notin {"waitpid", "glob", "merge", "remove", "endfor"}

\* max(1, floor(c / 2))
PoolSize(c) == IF c \div 2 >= 1 THEN c \div 2 ELSE 1

\* C3 -- worker pool size: the slot ids are within 0..W-1 with
\* W = max(1, floor(ncpu / 2)), and at most W workers are spawned.
C3_PoolSize ==
  Partitioned =>
    /\ DOMAIN workload \subseteq 0..(PoolSize(ncpu) - 1)
    /\ Cardinality(DOMAIN pids) <= PoolSize(ncpu)

\* C4 -- a recoverable document failure is contained: a worker ends only
\* after the last item of its list, and every item that failed before its
\* current position was logged and skipped.
C4_FailureContained ==
  \A t \in DOMAIN worker :
    /\ worker[t].pc \in {"exited", "crashed"} =>
         worker[t].idx > Len(workload[t])
    /\ \A k \in 1..Len(workload[t]) :
         (k < worker[t].idx /\ outcome[workload[t][k].path] # "ok") =>
           workload[t][k].path \in log

\* the poll loop of this pass has ended (line 152)
PassEnded ==
  \/ pc \in {"cleanup", "done"}
  \/ ret = "done" /\ pc \in {"save_open", "save_write", "save_rename"}

RECURSIVE Published(_)
\* the number of results the workers of the slots below n have published
Published(n) == IF n = 0 THEN 0 ELSE worker[n - 1].i + Published(n - 1)

\* C5 -- exactly-once harvest: when an uninterrupted pass ends, no published
\* result is left in a staging directory and the number of merges equals the
\* number of results published.
C5_HarvestExactlyOnce ==
  (PassEnded /\ ~interrupted) =>
    /\ \A t \in DOMAIN staging : \A f \in staging[t] : f.tmp
    /\ pdfs_done = Published(Cardinality(DOMAIN worker))

\* C5 witness: an uninterrupted pass with two workers has ended after three
\* merges.
C5_Witness ==
  /\ pc = "done"
  /\ ~interrupted
  /\ Cardinality(DOMAIN worker) = 2
  /\ pdfs_done = 3

\* C6 -- no torn staging read: every staging file the Coordinator reads has
\* its final name and holds a complete record, and the read never fails.
C6_NoTornRead ==
  /\ \A f \in curfile : f.complete /\ ~f.tmp
  /\ \A name \in pending : ~name.tmp
  /\ pc # "crashed"

\* C6 witness: the Coordinator has read a result of a slot whose worker has a
\* half-written .tmp file in the same directory.
C6_Witness ==
  /\ pc = "save_open"
  /\ curfile # {}
  /\ \E g \in staging[cur] : g.tmp /\ ~g.complete

\* C7 -- atomic persistence: database.db always holds a complete
\* serialization; a step leaves it as it was or installs the complete
\* serialization of the current mapping.
C7_AtomicSave ==
  [][/\ disk'[DbName].exists
     /\ disk'[DbName].complete
     /\ \/ disk'[DbName] = disk[DbName]
        \/ disk'[DbName].content = database']_vars

\* C7 witness: the Coordinator was killed between the write of
\* database.db.new and the rename; database.db still holds the previous
\* serialization.
C7_Witness ==
  /\ pc = "killed"
  /\ disk[NewName].exists
  /\ disk[NewName].complete
  /\ disk[NewName].content = database
  /\ disk[DbName].complete
  /\ disk[DbName].content # database

\* p begins with r
HasPrefix(p, r) ==
  /\ Len(r) <= Len(p)
  /\ \A k \in 1..Len(r) : p[k] = r[k]

UnderAny(p, rs) == \E k \in 1..Len(rs) : HasPrefix(p, rs[k])

\* the entries the reconciliation has to remove from db
Stale(db) ==
  {p \in DOMAIN db :
     /\ UnderAny(p, paths_to_index)
     /\ \/ p \notin Range(pdf_files)
        \/ UnderAny(p, paths_to_ignore)}

\* a work item is reached and succeeds: no item before it in its slot ends
\* the worker, and its own processing succeeds
Succeeds(t, k) ==
  /\ outcome[workload[t][k].path] = "ok"
  /\ \A j \in 1..(k - 1) :
       outcome[workload[t][j].path] \in {"ok", "PDFPageCountError"}

SucceededPaths == {workload[tk[1]][tk[2]].path : tk \in {x \in Items : Succeeds(x[1], x[2])}}

\* the database the merges of this pass lead to
ExpectedMerged ==
  [p \in DOMAIN loaded \cup SucceededPaths |->
     IF p \in SucceededPaths THEN Record(p) ELSE loaded[p]]

\* the database this pass has to end with
ExpectedFinal ==
  IF cleanup
  THEN [p \in DOMAIN ExpectedMerged \ Stale(ExpectedMerged) |-> ExpectedMerged[p]]
  ELSE ExpectedMerged

\* C8 -- deterministic final state: whatever the interleaving of the workers
\* and the harvest order, an uninterrupted pass ends with the one database
\* determined by the roots, the files and the initial database, and that
\* database is the one on disk.
C8_DeterministicFinal ==
  (pc = "done" /\ ~interrupted) =>
    /\ database = ExpectedFinal
    /\ disk[DbName].content = ExpectedFinal

\* C8 witness: an uninterrupted pass with two workers has ended and has
\* changed the database.
C8_Witness ==
  /\ pc = "done"
  /\ ~interrupted
  /\ Cardinality(DOMAIN worker) = 2
  /\ pdfs_done >= 2
  /\ database # loaded

OkBefore(t, k) ==
  Cardinality({j \in 1..(k - 1) : outcome[workload[t][j].path] = "ok"})

\* C11 -- round trip through staging: a merge stores, under the path of the
\* work item whose result it reads (the result numbered n belongs to the
\* item with n successful items before it), the OCR output of the document
\* page by page and the modification time and size of the work item, and
\* changes no other record.
C11_RoundTrip ==
  [][(pc = "merge" /\ pc' = "save_open") =>
       \E f \in curfile' : \E k \in 1..Len(workload[cur]) :
         LET item == workload[cur][k]
         IN /\ outcome[item.path] = "ok"
            /\ OkBefore(cur, k) = f.n
            /\ item.path \in DOMAIN database'
            /\ database'[item.path].mtime = item.mtime
            /\ database'[item.path].fsize = item.fsize
            /\ Len(database'[item.path].pages) = Len(OcrPages[item.path])
            /\ \A n \in 1..Len(OcrPages[item.path]) :
                 database'[item.path].pages[n] = OcrPages[item.path][n]
            /\ DOMAIN database' = DOMAIN database \cup {item.path}
            /\ \A p \in DOMAIN database : p # item.path => database'[p] = database[p]]_vars

\* C11 witness: the result of the two-page document has been merged over an
\* older record of the same path.
C11_Witness ==
  /\ pc = "save_open"
  /\ ret = "remove"
  /\ \E f \in curfile : json_loads(f.obj).path = FileS
  /\ FileS \in DOMAIN loaded
  /\ loaded[FileS].pages = <<TextOld>>
  /\ database[FileS] = [mtime |-> 20, fsize |-> 200, pages |-> <<TextOne, TextTwo>>]

\* the positions of page at which a line starts
LineStarts(page) == {1} \cup {k + 1 : k \in {j \in 1..Len(page) : page[j] = "\n"}}

\* the position at which the line starting at position b of page ends
LineEnd(page, b) ==
  CHOOSE e \in (b - 1)..Len(page) :
    /\ e = Len(page) \/ page[e + 1] = "\n"
    /\ \A j \in b..e : page[j] # "\n"

\* line contains q when letter case is ignored
Hit(q, line) ==
  \E o \in 0..(Len(line) - Len(q)) :
    \A j \in 1..Len(q) : LowerTok(line[o + j]) = LowerTok(q[j])

\* the results a search for the words of search_string owes
Hits ==
  UNION { UNION { { <<p, g, Cardinality({j \in 1..(b - 1) : database[p].pages[g][j] = "\n"}),
                      SubSeq(database[p].pages[g], b, LineEnd(database[p].pages[g], b))>> :
                    b \in {c \in LineStarts(database[p].pages[g]) :
                             Hit(Join(search_string),
                                 SubSeq(database[p].pages[g], c,
                                        LineEnd(database[p].pages[g], c)))} } :
                  g \in 1..Len(database[p].pages) } :
          p \in DOMAIN database }

\* result a is printed before result b
Before(a, b) ==
  \/ StrLess(a[1], b[1])
  \/ a[1] = b[1] /\ a[2] < b[2]
  \/ a[1] = b[1] /\ a[2] = b[2] /\ a[3] < b[3]

C12_WitnessOrder ==
  /\ pc = "done"
  /\ search_string = <<<<"o">>>>
  /\ Len(printed) = 6

\* the paths of the work items of this pass
WorkloadPaths == {workload[tk[1]][tk[2]].path : tk \in Items}

\* C13 -- single writer and record lifecycle: within a pass a record of the
\* database in memory is created or overwritten only by the Coordinator's
\* merge of a staging result of that path, the database file changes only
\* inside the Coordinator's save(), no step of a Worker changes the database
\* in memory or on disk, and when -c was not given no record is removed and
\* the records of the paths outside the workload stay as they are.
C13_SingleWriter ==
  [][pass' = pass =>
       /\ \A p \in DOMAIN database' :
            (p \notin DOMAIN database \/ database'[p] # database[p]) =>
              /\ pc = "merge"
              /\ pc' = "save_open"
              /\ \E f \in curfile' : json_loads(f.obj).path = p
       /\ disk' # disk => pc \in {"save_open", "save_write", "save_rename"}
       /\ disk'[DbName].content # disk[DbName].content =>
            pc = "save_rename" /\ disk'[DbName].content = database
       /\ (worker' # worker \/ staging' # staging) =>
            database' = database /\ disk' = disk
       /\ ~cleanup =>
            /\ DOMAIN database \subseteq DOMAIN database'
            /\ DOMAIN disk[DbName].content \subseteq DOMAIN disk'[DbName].content
            /\ \A p \in DOMAIN database :
                 p \notin UNION {{workload'[t][k].path : k \in 1..Len(workload'[t])} :
                                    t \in DOMAIN workload'} =>
                   database'[p] = database[p]]_vars

\* C13 witness: a pass without -c has ended after merging and saving the
\* result of /a/s/y.PDF over its older record, while the record of the
\* deleted /a/g.pdf and that of the unchanged /a/x.pdf are what was loaded.
C13_Witness ==
  /\ pc = "done"
  /\ ~cleanup
  /\ FileS \in WorkloadPaths
  /\ FileS \in DOMAIN loaded
  /\ loaded[FileS] = StaleRecord(FileS)
  /\ database[FileS] = Record(FileS)
  /\ FileG \in DOMAIN database
  /\ database[FileG] = loaded[FileG]
  /\ FileA \notin WorkloadPaths
  /\ database[FileA] = loaded[FileA]
  /\ disk[DbName].content = database

\* C14 -- database after cancellation: once SIGINT has been delivered in a
\* pass, no further step of that pass changes the database in memory (no
\* merge, no cleanup removal), the database file or the count of merged
\* results.
C14_FrozenAfterInterrupt ==
  [][(interrupted /\ pass' = pass) =>
       /\ database' = database
       /\ disk'[DbName] = disk[DbName]
       /\ pdfs_done' = pdfs_done]_vars

\* the sequence numbers of the results published in slot t
Finals(st, t) == {f.n : f \in {g \in st[t] : ~g.tmp}}

\* C15 -- within-slot ordering: a result a Worker publishes carries a larger
\* sequence number than every result it published before, and the result
\* the Coordinator merges is the one with the smallest sequence number among
\* the published results of the slot that are still to be merged.
C15_SlotOrder ==
  [][/\ \A t \in DOMAIN worker :
          (t \in DOMAIN worker' /\ worker[t].pc = "written" /\ worker'[t].pc = "run") =>
            \A n \in Finals(staging', t) \ Finals(staging, t) :
              /\ n = worker[t].i
              /\ \A m \in Finals(staging, t) : m < n
     /\ (pc = "merge" /\ pc' = "save_open") =>
          \A f \in curfile' : \A n \in Finals(staging, cur) : f.n <= n]_vars

\* C16 -- transient race tolerated: when a discovered document is deleted
\* before build_workload reads its fingerprint, the Coordinator does not
\* abort and every other candidate whose fingerprint is new or changed is
\* in the workload.
C16_VanishTolerated ==
  vanished # {} =>
    /\ pc # "aborted"
    /\ \A p \in Outstanding \ vanished : p \in WorkloadPaths

\* the file p is located in the directory tree of the root r
InTree(p, r) == HasPrefix(p, Abspath(r) \o <<"/">>)

\* C17 -- cleanup frame: every entry cleanup() removes is the entry of a file
\* located in the directory tree of one of the roots given to the pass.
C17_CleanupFrame ==
  [][(pc = "cleanup" /\ pc' = "save_open") =>
       \A p \in DOMAIN database \ DOMAIN database' :
         \E k \in 1..Len(paths_to_index) : InTree(p, paths_to_index[k])]_vars

\* C18 -- a failed item leaves no trace: no staging file, finished or not,
\* carries the path of an item its Worker failed on, the entry of that path
\* in the database in memory and on disk is what the pass loaded (absent, or
\* the older record), and the paths the previous pass failed on are in the
\* workload of this pass when it reads the same files.
C18_FailedNoTrace ==
  /\ \A p \in FailedPaths :
       /\ \A t \in DOMAIN staging : \A f \in staging[t] : json_loads(f.obj).path # p
       /\ p \in DOMAIN database <=> p \in DOMAIN loaded
       /\ p \in DOMAIN loaded => database[p] = loaded[p]
       /\ p \in DOMAIN disk[DbName].content <=> p \in DOMAIN loaded
       /\ p \in DOMAIN loaded => disk[DbName].content[p] = loaded[p]
  /\ (pass > 1 /\ Partitioned /\ vanished = {}) => prev.failed \subseteq WorkloadPaths

\* C18 witness: the rasterizer rejected /a/s/y.PDF in the first pass, which
\* ended with the older record of that path in place, and the second pass
\* has the path in its workload again.
C18_Witness ==
  /\ pass = 2
  /\ Partitioned
  /\ prev.failed = {FileS}
  /\ outcome[FileS] = "PDFPageCountError"
  /\ FileS \in DOMAIN loaded
  /\ loaded[FileS] = StaleRecord(FileS)
  /\ FileS \in WorkloadPaths
  /\ database[FileS] = StaleRecord(FileS)

\* every forked Worker has ended: by sys.exit, by an exception or by a signal
AllWorkersEnded ==
  /\ pc \notin {"start", "aborted", "search"}
  /\ \A t \in DOMAIN worker : worker[t].pc \in {"exited", "crashed", "killed"}

\* the Coordinator is inside the poll loop of lines 136-168
InLoop == pc \in {"waitpid", "glob", "merge", "save_open", "save_write", "save_rename",
                  "remove", "endfor"} /\ ret # "done"

\* C19 -- pass termination: (a) the liveness check of a slot returns
\* whatever the state of its Worker, and whenever a slot holds a published
\* result the Coordinator reaches a point where every published result has
\* been harvested, or is terminated by a signal, whatever the Workers do,
\* even if one of them never ends; (b) once every forked Worker has ended
\* (none was forked when the workload is empty), the Coordinator leaves the
\* poll loop; (c) with an empty workload the Coordinator is never at a slot
\* poll or a sleep: the pass ends at the first test of threads_complete.
C19_PassTermination ==
  /\ [](pc = "waitpid" => ENABLED WaitPid)
  /\ (\E t \in DOMAIN staging : Finals(staging, t) # {})
       ~> ((\A t \in DOMAIN staging : Finals(staging, t) = {}) \/ pc = "killed")
  /\ AllWorkersEnded ~> (PassEnded \/ pc = "killed")
  /\ [](pc \notin {"start", "aborted", "search"} /\ total_todo = 0 =>
          /\ pc \notin {"waitpid", "glob", "merge", "remove"}
          /\ threads_complete)

\* C19 witness: the pass has ended although the Worker of slot 0 was ended by
\* an exception, after the result of slot 1 was merged.
C19_Witness ==
  /\ PassEnded
  /\ ~interrupted
  /\ DOMAIN worker = {0, 1}
  /\ worker[0].pc = "crashed"
  /\ worker[1].pc = "exited"
  /\ pdfs_done = 1

\* C20 -- progress counter bound: the count of merged results never exceeds
\* total_todo, and when a pass that was not interrupted has ended it equals
\* the number of work items that were processed successfully.
C20_ProgressBound ==
  /\ pdfs_done <= total_todo
  /\ (PassEnded /\ ~interrupted) =>
       pdfs_done = Cardinality({tk \in Items : Succeeds(tk[1], tk[2])})

\* C20 witness: a pass of three work items has ended with two results merged
\* and one item failed.
C20_Witness ==
  /\ pc = "done"
  /\ ~interrupted
  /\ total_todo = 3
  /\ pdfs_done = 2
  /\ Cardinality({tk \in Items : Succeeds(tk[1], tk[2])}) = 2
  /\ \E p \in WorkloadPaths : outcome[p] # "ok"

====
